---- MODULE Spec2Model ----
(***************************************************************************)
(* A model of src/main.rs: the two lock-guarded counters (Counter over     *)
(* std::sync::RwLock, AsyncCounter over async_std::sync::RwLock), and one  *)
(* call of test::<C>(executor, max_counters, per_counter_operations_cnt,   *)
(* read_write_ratio): the submission loop, the tasks the executor runs on  *)
(* its workers, the collection of the results and the report line.         *)
(***************************************************************************)
EXTENDS Integers, Sequences, FiniteSets, TLC

\* ---- bounds of the model ------------------------------------------------
\* largest max_counters a call of test is given
MaxCounters == 2
\* largest per_counter_operations_cnt a call of test is given
MaxOps == 3
\* largest number of operations (max_counters * per_counter_operations_cnt) of
\* a call of test
MaxTasks == 4
\* largest number of operations of a call of test in the runs checked for
\* termination under fairness
LiveTasks == 3
\* max_counters of the calls main makes (the source has 100)
MainCounters == 1
\* per_counter_operations_cnt of the calls main makes (the source has 10000)
MainOps == 3
\* largest number of worker threads of the executor
NumWorkers == 2
\* payloads are drawn from 0 .. MaxPayload-1 (the source draws from 0 .. 9999)
MaxPayload == 2

CellIds == 1..(IF MaxCounters >= MainCounters THEN MaxCounters ELSE MainCounters)
TaskIds == 1..(IF MaxTasks >= MainCounters * MainOps THEN MaxTasks
               ELSE MainCounters * MainOps)
Workers == 1..NumWorkers
Values == 0..(MaxPayload - 1)
\* read_write_ratio in tenths: 0.0, 0.5, 1.0
Ratios == {0, 5, 10}

VARIABLES
    variant,                     \* C of test::<C>: "Counter" or "AsyncCounter"
    max_counters,                \* parameter of test
    per_counter_operations_cnt,  \* parameter of test
    read_write_ratio,            \* parameter of test, in tenths
    pool,                        \* number of worker threads of the executor
    run,                         \* the call of test main is in (1..4), 0 for a call on its own
    phase,                       \* "submitting", "awaiting", "reported", "panicked";
                                 \* "exited" once main has returned
    index,                       \* outer loop variable of the submission loop
    op_i,                        \* iterations done of the inner loop
    futures,                     \* number of handles pushed to the FuturesUnordered
    results,                     \* the collected Vec of results
    stdout,                      \* the lines printed
    inner,                       \* inner[c]: the u64 inside the lock of cell c
    readers,                     \* readers[c]: tasks holding cell c's lock in read mode
    writers,                     \* writers[c]: tasks holding cell c's lock in write mode
    poisoned,                    \* poisoned[c]: the std lock of cell c is poisoned
    handle,                      \* handle[t]: the cell the clone moved into task t points to
    kind,                        \* kind[t]: "none", "get" or "set"
    new_val,                     \* new_val[t]: the payload moved into a set task
    pc,                          \* pc[t]: position of task t: "none", "ready", "running",
                                 \* "suspended", "locked", "accessed", "done", "collected",
                                 \* "panicked"
    result,                      \* result[t]: the value task t resolves to
    running,                     \* running[w]: the task worker w executes, 0 when idle
    lockOrder,                   \* history: set tasks of cell c in write-lock order
    src,                         \* history: the set task whose payload cell c holds, 0 initially
    seen,                        \* history: set tasks released when get task t took the lock
    from,                        \* history: src of the cell when get task t read it
    first_done                   \* history: the task that ended first in this call, 0 if none

vars == <<variant, max_counters, per_counter_operations_cnt, read_write_ratio, pool, run,
          phase, index, op_i, futures, results, stdout, inner, readers, writers, poisoned,
          handle, kind, new_val, pc, result, running, lockOrder, src, seen, from,
          first_done>>

mainVars == <<phase, index, op_i, futures, results, stdout>>
paramVars == <<variant, max_counters, per_counter_operations_cnt, read_write_ratio,
              pool, run>>
\* what a step that never panics leaves alone
calmVars == <<paramVars, poisoned>>
lockVars == <<readers, writers>>
histVars == <<lockOrder, src, seen, from, first_done>>

\* ---- the counters -------------------------------------------------------

\* AsyncCounter::new / Counter::new: Arc::new(RwLock::new(0))
NewValue == 0

\* a clone that allocates storage of its own instead of sharing the cell
Clone_copy(c) == (futures % MaxCounters) + 1

\* Clone: Arc::clone(&self.inner), the same cell
Clone(c) == c

\* a loop that clones counters[0] for every operation
CounterAt_first(i) == 1

\* counters[index] of the submission loop (cells are numbered from 1)
CounterAt(i) == i + 1

\* a read lock that does not wait for the writer
read_ok_racy(c) == TRUE

\* RwLock::read succeeds when no task holds the lock in write mode
read_ok(c) == writers[c] = {}

\* a write lock that waits for the readers only
write_ok_racy(c) == readers[c] = {}

\* RwLock::write succeeds when no task holds the lock in either mode
write_ok(c) == writers[c] = {} /\ readers[c] = {}

\* a get that reads the cell of another counter
Load_other(c) == inner[IF c = 1 THEN MaxCounters ELSE 1]

\* *val of get
Load(c) == inner[c]

\* a set that drops its value
Store_lost(c, val) == inner

\* *curr = val of set
Store(c, val) == [inner EXCEPT ![c] = val]

\* a gen_bool that ignores its probability
GenBool_any(p) == BOOLEAN

\* rng.gen_bool(read_write_ratio): the outcomes the ratio allows
GenBool(p) == IF p >= 10 THEN {TRUE} ELSE IF p <= 0 THEN {FALSE} ELSE BOOLEAN

\* rng.gen_range(0, 10000)
GenRange == Values

WorkerOf(t) == CHOOSE w \in Workers : running[w] = t

OnWorker(t) == \E w \in Workers : running[w] = t

\* a finished task leaves its worker
Free(t) == [running EXCEPT ![WorkerOf(t)] = 0]

\* a pending task that keeps its worker
Park_keep(t) == running

\* Poll::Pending returned to the executor: the worker drops the task
Park(t) == [running EXCEPT ![WorkerOf(t)] = 0]

\* both variants awaiting their lock
Suspending_all(v) == TRUE

\* the lock of the variant is awaited (async_std) rather than waited for in
\* the thread (std)
Suspending(v) == v = "AsyncCounter"

\* ---- initial state: test called, counters constructed --------------------
Init ==
    /\ variant \in {"Counter", "AsyncCounter"}
    /\ max_counters \in 0..MaxCounters
    /\ per_counter_operations_cnt \in 0..MaxOps
    /\ max_counters * per_counter_operations_cnt <= MaxTasks
    /\ read_write_ratio \in Ratios
    /\ pool \in 1..NumWorkers
    /\ run = 0
    /\ phase = "submitting"
    /\ index = 0
    /\ op_i = 0
    /\ futures = 0
    /\ results = <<>>
    /\ stdout = <<>>
    /\ inner = [c \in CellIds |-> NewValue]
    /\ readers = [c \in CellIds |-> {}]
    /\ writers = [c \in CellIds |-> {}]
    /\ poisoned = [c \in CellIds |-> FALSE]
    /\ handle = [t \in TaskIds |-> 0]
    /\ kind = [t \in TaskIds |-> "none"]
    /\ new_val = [t \in TaskIds |-> 0]
    /\ pc = [t \in TaskIds |-> "none"]
    /\ result = [t \in TaskIds |-> 0]
    /\ running = [w \in Workers |-> 0]
    /\ lockOrder = [c \in CellIds |-> <<>>]
    /\ src = [c \in CellIds |-> 0]
    /\ seen = [t \in TaskIds |-> {}]
    /\ from = [t \in TaskIds |-> 0]
    /\ first_done = 0

\* ---- test: the submission loop -------------------------------------------

\* an inner loop that runs its body before testing its bound
InLoop_once == index < max_counters

\* for index in 0..max_counters { for _ in 0..per_counter_operations_cnt { .. } }
InLoop == index < max_counters /\ op_i < per_counter_operations_cnt

LoopDone == index >= max_counters \/ per_counter_operations_cnt = 0

LoopStep ==
    IF op_i + 1 >= per_counter_operations_cnt
    THEN index' = index + 1 /\ op_i' = 0
    ELSE index' = index /\ op_i' = op_i + 1

\* read = true: spawn async move { counter.get().await }
spawn_get ==
    /\ phase = "submitting"
    /\ InLoop
    /\ TRUE \in GenBool(read_write_ratio)
    /\ LET t == futures + 1 IN
        /\ handle' = [handle EXCEPT ![t] = Clone(CounterAt(index))]
        /\ kind' = [kind EXCEPT ![t] = "get"]
        /\ pc' = [pc EXCEPT ![t] = "ready"]
        /\ futures' = t
    /\ LoopStep
    /\ UNCHANGED <<calmVars, phase, results, stdout, inner, lockVars, new_val,
                   result, running, histVars>>

\* read = false: spawn async move { counter.set(new_val).await; new_val }
spawn_set ==
    /\ phase = "submitting"
    /\ InLoop
    /\ FALSE \in GenBool(read_write_ratio)
    /\ \E v \in GenRange :
        LET t == futures + 1 IN
        /\ handle' = [handle EXCEPT ![t] = Clone(CounterAt(index))]
        /\ kind' = [kind EXCEPT ![t] = "set"]
        /\ new_val' = [new_val EXCEPT ![t] = v]
        /\ pc' = [pc EXCEPT ![t] = "ready"]
        /\ futures' = t
    /\ LoopStep
    /\ UNCHANGED <<calmVars, phase, results, stdout, inner, lockVars,
                   result, running, histVars>>

\* let start = Instant::now(); the collect begins
start_collect ==
    /\ phase = "submitting"
    /\ LoopDone
    /\ phase' = "awaiting"
    /\ UNCHANGED <<calmVars, index, op_i, futures, results, stdout, inner, lockVars,
                   handle, kind, new_val, pc, result, running, histVars>>

\* ---- the executor: a worker takes a ready task ----------------------------
worker_run(w, t) ==
    /\ w <= pool
    /\ running[w] = 0
    /\ pc[t] = "ready"
    /\ running' = [running EXCEPT ![w] = t]
    /\ pc' = [pc EXCEPT ![t] = "running"]
    /\ UNCHANGED <<calmVars, mainVars, inner, lockVars, handle, kind, new_val,
                   result, histVars>>

Released(c) == {u \in TaskIds : kind[u] = "set" /\ handle[u] = c
                                /\ pc[u] \in {"done", "collected"}}

\* ---- the steps of get and set, shared by the two variants -----------------
\* the read guard is taken
get_locked(t) ==
    /\ pc[t] = "running"
    /\ kind[t] = "get"
    /\ read_ok(handle[t])
    /\ readers' = [readers EXCEPT ![handle[t]] = @ \cup {t}]
    /\ seen' = [seen EXCEPT ![t] = Released(handle[t])]
    /\ pc' = [pc EXCEPT ![t] = "locked"]
    /\ UNCHANGED <<calmVars, mainVars, inner, writers, handle, kind, new_val,
                   result, running, lockOrder, src, from, first_done>>

\* *val
get_deref(t) ==
    /\ pc[t] = "locked"
    /\ kind[t] = "get"
    /\ result' = [result EXCEPT ![t] = Load(handle[t])]
    /\ from' = [from EXCEPT ![t] = src[handle[t]]]
    /\ pc' = [pc EXCEPT ![t] = "accessed"]
    /\ UNCHANGED <<calmVars, mainVars, inner, lockVars, handle, kind, new_val,
                   running, lockOrder, src, seen, first_done>>

\* the write guard is taken
set_locked(t) ==
    /\ pc[t] = "running"
    /\ kind[t] = "set"
    /\ write_ok(handle[t])
    /\ writers' = [writers EXCEPT ![handle[t]] = @ \cup {t}]
    /\ lockOrder' = [lockOrder EXCEPT ![handle[t]] = Append(@, t)]
    /\ pc' = [pc EXCEPT ![t] = "locked"]
    /\ UNCHANGED <<calmVars, mainVars, inner, readers, handle, kind, new_val,
                   result, running, src, seen, from, first_done>>

\* *curr = val
set_store(t) ==
    /\ pc[t] = "locked"
    /\ kind[t] = "set"
    /\ inner' = Store(handle[t], new_val[t])
    /\ src' = [src EXCEPT ![handle[t]] = t]
    /\ pc' = [pc EXCEPT ![t] = "accessed"]
    /\ UNCHANGED <<calmVars, mainVars, lockVars, handle, kind, new_val,
                   result, running, lockOrder, seen, from, first_done>>

\* a set task that resolves to a value it never assigned
Output_unset(t) == result[t]

\* the value a finished task resolves to: get's copy, or new_val after set
Output(t) == IF kind[t] = "get" THEN result[t] ELSE new_val[t]

\* the guard is dropped
Unlock(t) ==
    /\ readers' = [readers EXCEPT ![handle[t]] = @ \ {t}]
    /\ writers' = [writers EXCEPT ![handle[t]] = @ \ {t}]

\* ---- Counter: std::sync::RwLock, the thread waits inside read()/write() ---
Counter_get_lock(t) ==
    /\ variant = "Counter"
    /\ pc[t] = "running"
    /\ ~poisoned[handle[t]]
    /\ get_locked(t)

Counter_get_deref(t) == variant = "Counter" /\ get_deref(t)

Counter_set_lock(t) ==
    /\ variant = "Counter"
    /\ pc[t] = "running"
    /\ ~poisoned[handle[t]]
    /\ set_locked(t)

Counter_set_store(t) == variant = "Counter" /\ set_store(t)

\* the guard is dropped, the task ends and its handle becomes ready
Counter_return(t) ==
    /\ variant = "Counter"
    /\ pc[t] = "accessed"
    /\ Unlock(t)
    /\ result' = [result EXCEPT ![t] = Output(t)]
    /\ pc' = [pc EXCEPT ![t] = "done"]
    /\ running' = Free(t)
    /\ first_done' = IF first_done = 0 THEN t ELSE first_done
    /\ UNCHANGED <<calmVars, mainVars, inner, handle, kind, new_val, lockOrder,
                   src, seen, from>>

\* ---- AsyncCounter: async_std RwLock, read().await / write().await ----------
AsyncCounter_get_lock(t) == variant = "AsyncCounter" /\ get_locked(t)

AsyncCounter_get_deref(t) == variant = "AsyncCounter" /\ get_deref(t)

AsyncCounter_set_lock(t) == variant = "AsyncCounter" /\ set_locked(t)

AsyncCounter_set_store(t) == variant = "AsyncCounter" /\ set_store(t)

\* the lock is contended for the mode the task asks
Contended(t) ==
    \/ kind[t] = "get" /\ ~read_ok(handle[t])
    \/ kind[t] = "set" /\ ~write_ok(handle[t])

\* a get or set that awaits again while it holds the guard
AtAwait_held(t) == pc[t] \in {"running", "locked"}

\* the one suspension point of get and set: the .await of read() / write(),
\* reached before the guard exists
AtAwait(t) == pc[t] = "running"

\* .await on a contended lock: Poll::Pending, the task leaves its worker
await_pending(t) ==
    /\ Suspending(variant)
    /\ AtAwait(t)
    /\ Contended(t)
    /\ pc' = [pc EXCEPT ![t] = "suspended"]
    /\ running' = Park(t)
    /\ UNCHANGED <<calmVars, mainVars, inner, lockVars, handle, kind, new_val,
                   result, histVars>>

\* a guard whose drop wakes nobody
Woken_none(t) == {}

\* dropping the guard wakes the tasks waiting for this lock
Woken(t) == {u \in TaskIds : pc[u] = "suspended" /\ handle[u] = handle[t]}

AsyncCounter_return(t) ==
    /\ variant = "AsyncCounter"
    /\ pc[t] = "accessed"
    /\ Unlock(t)
    /\ result' = [result EXCEPT ![t] = Output(t)]
    /\ pc' = [u \in TaskIds |-> IF u = t THEN "done"
                                ELSE IF u \in Woken(t) THEN "ready"
                                ELSE pc[u]]
    /\ running' = Free(t)
    /\ first_done' = IF first_done = 0 THEN t ELSE first_done
    /\ UNCHANGED <<calmVars, mainVars, inner, handle, kind, new_val, lockOrder,
                   src, seen, from>>

\* ---- test: collect and report ----------------------------------------------
\* futures.collect(): the next ready handle yields its result
collect_next(t) ==
    /\ phase = "awaiting"
    /\ pc[t] = "done"
    /\ results' = Append(results, result[t])
    /\ pc' = [pc EXCEPT ![t] = "collected"]
    /\ UNCHANGED <<calmVars, phase, index, op_i, futures, stdout, inner, lockVars,
                   handle, kind, new_val, result, running, histVars>>

\* a collect that returns with the first result
StreamEnded_early == \E t \in 1..futures : pc[t] = "collected"

\* the stream ends when the FuturesUnordered holds no handle any more
StreamEnded == \A t \in 1..futures : pc[t] = "collected"

\* println!(.., C::name(), .., read_write_ratio, results[0])
report ==
    /\ phase = "awaiting"
    /\ StreamEnded
    /\ Len(results) >= 1
    /\ stdout' = Append(stdout, [name |-> variant, ratio |-> read_write_ratio,
                                 first_val |-> results[1]])
    /\ phase' = "reported"
    /\ UNCHANGED <<calmVars, index, op_i, futures, results, inner, lockVars,
                   handle, kind, new_val, pc, result, running, histVars>>

\* results[0] on an empty Vec: index out of bounds
report_panic ==
    /\ phase = "awaiting"
    /\ StreamEnded
    /\ Len(results) = 0
    /\ phase' = "panicked"
    /\ UNCHANGED <<calmVars, index, op_i, futures, results, stdout, inner, lockVars,
                   handle, kind, new_val, pc, result, running, histVars>>

\* the steps of a call of test that ends with its line printed
TestNext ==
    \/ spawn_get
    \/ spawn_set
    \/ start_collect
    \/ \E w \in Workers, t \in TaskIds : worker_run(w, t)
    \/ \E t \in TaskIds : Counter_get_lock(t)
    \/ \E t \in TaskIds : Counter_get_deref(t)
    \/ \E t \in TaskIds : Counter_set_lock(t)
    \/ \E t \in TaskIds : Counter_set_store(t)
    \/ \E t \in TaskIds : Counter_return(t)
    \/ \E t \in TaskIds : AsyncCounter_get_lock(t)
    \/ \E t \in TaskIds : AsyncCounter_get_deref(t)
    \/ \E t \in TaskIds : AsyncCounter_set_lock(t)
    \/ \E t \in TaskIds : AsyncCounter_set_store(t)
    \/ \E t \in TaskIds : await_pending(t)
    \/ \E t \in TaskIds : AsyncCounter_return(t)
    \/ \E t \in TaskIds : collect_next(t)
    \/ report

Next ==
    \/ TestNext
    \/ report_panic

Spec == Init /\ [][Next]_vars

\* ---- main: the four calls of test -------------------------------------------
\* a main that runs the two AsyncCounter calls first
Matrix_swapped ==
    << [name |-> "AsyncCounter", ratio |-> 9], [name |-> "Counter", ratio |-> 9],
       [name |-> "AsyncCounter", ratio |-> 5], [name |-> "Counter", ratio |-> 5] >>

\* test::<Counter>(.., 0.9), test::<AsyncCounter>(.., 0.9),
\* test::<Counter>(.., 0.5), test::<AsyncCounter>(.., 0.5)
Matrix ==
    << [name |-> "Counter", ratio |-> 9], [name |-> "AsyncCounter", ratio |-> 9],
       [name |-> "Counter", ratio |-> 5], [name |-> "AsyncCounter", ratio |-> 5] >>

\* main has entered its first call of test
MainInit ==
    /\ run = 1
    /\ variant = Matrix[1].name
    /\ read_write_ratio = Matrix[1].ratio
    /\ max_counters = MainCounters
    /\ per_counter_operations_cnt = MainOps
    /\ pool \in 1..NumWorkers
    /\ phase = "submitting"
    /\ index = 0
    /\ op_i = 0
    /\ futures = 0
    /\ results = <<>>
    /\ stdout = <<>>
    /\ inner = [c \in CellIds |-> NewValue]
    /\ readers = [c \in CellIds |-> {}]
    /\ writers = [c \in CellIds |-> {}]
    /\ poisoned = [c \in CellIds |-> FALSE]
    /\ handle = [t \in TaskIds |-> 0]
    /\ kind = [t \in TaskIds |-> "none"]
    /\ new_val = [t \in TaskIds |-> 0]
    /\ pc = [t \in TaskIds |-> "none"]
    /\ result = [t \in TaskIds |-> 0]
    /\ running = [w \in Workers |-> 0]
    /\ lockOrder = [c \in CellIds |-> <<>>]
    /\ src = [c \in CellIds |-> 0]
    /\ seen = [t \in TaskIds |-> {}]
    /\ from = [t \in TaskIds |-> 0]
    /\ first_done = 0

\* test(..).await has returned: main calls test for the next entry, with new
\* counters and a new FuturesUnordered, on the same executor
main_next ==
    /\ run >= 1
    /\ run < Len(Matrix)
    /\ phase = "reported"
    /\ run' = run + 1
    /\ variant' = Matrix[run + 1].name
    /\ read_write_ratio' = Matrix[run + 1].ratio
    /\ phase' = "submitting"
    /\ index' = 0
    /\ op_i' = 0
    /\ futures' = 0
    /\ results' = <<>>
    /\ inner' = [c \in CellIds |-> NewValue]
    /\ readers' = [c \in CellIds |-> {}]
    /\ writers' = [c \in CellIds |-> {}]
    /\ poisoned' = [c \in CellIds |-> FALSE]
    /\ handle' = [t \in TaskIds |-> 0]
    /\ kind' = [t \in TaskIds |-> "none"]
    /\ new_val' = [t \in TaskIds |-> 0]
    /\ pc' = [t \in TaskIds |-> "none"]
    /\ result' = [t \in TaskIds |-> 0]
    /\ lockOrder' = [c \in CellIds |-> <<>>]
    /\ src' = [c \in CellIds |-> 0]
    /\ seen' = [t \in TaskIds |-> {}]
    /\ from' = [t \in TaskIds |-> 0]
    /\ first_done' = 0
    /\ UNCHANGED <<max_counters, per_counter_operations_cnt, pool, stdout, running>>

\* the last call has returned: main returns
main_exit ==
    /\ run = Len(Matrix)
    /\ phase = "reported"
    /\ phase' = "exited"
    /\ UNCHANGED <<calmVars, index, op_i, futures, results, stdout, inner, lockVars,
                   handle, kind, new_val, pc, result, running, histVars>>

MainNext ==
    \/ TestNext
    \/ main_next
    \/ main_exit

MainSpec == MainInit /\ [][MainNext]_vars

\* ---- failures ---------------------------------------------------------------
\* executor.spawn_with_handle(fut) returns Err: unwrap() panics in test
spawn_fail ==
    /\ phase = "submitting"
    /\ InLoop
    /\ phase' = "panicked"
    /\ UNCHANGED <<calmVars, index, op_i, futures, results, stdout, inner, lockVars,
                   handle, kind, new_val, pc, result, running, histVars>>

\* the tasks the unwinding of task t wakes: the waiters of a guard it drops
Unwound(t) == IF pc[t] \in {"locked", "accessed"} THEN Woken(t) ELSE {}

\* a task on a worker panics: its guard is dropped by the unwinding, a std
\* write guard poisons its lock, and the worker goes on with other tasks
task_panic(t) ==
    /\ phase \in {"submitting", "awaiting"}
    /\ pc[t] \in {"running", "locked", "accessed"}
    /\ Unlock(t)
    /\ poisoned' = [poisoned EXCEPT ![handle[t]] =
                        @ \/ (variant = "Counter" /\ t \in writers[handle[t]])]
    /\ pc' = [u \in TaskIds |-> IF u = t THEN "panicked"
                                ELSE IF u \in Unwound(t) THEN "ready"
                                ELSE pc[u]]
    /\ running' = Free(t)
    /\ UNCHANGED <<paramVars, mainVars, inner, handle, kind, new_val, result,
                   histVars>>

\* Counter: read() / write() on a poisoned lock returns Err once the lock is
\* free for the mode asked, and unwrap() panics in the task
Counter_poisoned(t) ==
    /\ variant = "Counter"
    /\ pc[t] = "running"
    /\ poisoned[handle[t]]
    /\ ~Contended(t)
    /\ pc' = [pc EXCEPT ![t] = "panicked"]
    /\ running' = Free(t)
    /\ UNCHANGED <<calmVars, mainVars, inner, lockVars, handle, kind, new_val,
                   result, histVars>>

\* futures.collect(): the handle of a panicked task yields no u64, the panic
\* of the task is raised again in test
collect_panic(t) ==
    /\ phase = "awaiting"
    /\ pc[t] = "panicked"
    /\ phase' = "panicked"
    /\ UNCHANGED <<calmVars, index, op_i, futures, results, stdout, inner, lockVars,
                   handle, kind, new_val, pc, result, running, histVars>>

FaultNext ==
    \/ MainNext
    \/ spawn_fail
    \/ \E t \in TaskIds : task_panic(t)
    \/ \E t \in TaskIds : Counter_poisoned(t)
    \/ \E t \in TaskIds : collect_panic(t)

FaultSpec == MainInit /\ [][FaultNext]_vars

\* the calls of test of at most LiveTasks operations
LiveInit == Init /\ max_counters * per_counter_operations_cnt <= LiveTasks

\* fairness of the executor and of the main task: a step that can be taken is
\* taken eventually
LiveSpec == LiveInit /\ [][Next]_vars /\ WF_vars(Next)

\* ---- properties ------------------------------------------------------------
Holding(t) == pc[t] \in {"locked", "accessed"}

Finished(t) == pc[t] \in {"done", "collected"}

HasRead(t) == kind[t] = "get" /\ pc[t] \in {"accessed", "done", "collected"}

SetsOf(c) == {t \in TaskIds : kind[t] = "set" /\ handle[t] = c}

Total == max_counters * per_counter_operations_cnt

Last(s) == s[Len(s)]

\* C1: each lock is held by at most one writer and no reader, or by no writer
\* and any number of readers; a task between taking its guard and dropping it
\* (where get reads the value and set writes it) holds the lock in read mode
\* for get and in write mode for set.
C1_ReadWriteExclusion ==
    /\ \A c \in CellIds :
        \/ Cardinality(writers[c]) <= 1 /\ readers[c] = {}
        \/ writers[c] = {}
    /\ \A t \in TaskIds :
        /\ Holding(t) /\ kind[t] = "get"
              => t \in readers[handle[t]] /\ writers[handle[t]] = {}
        /\ Holding(t) /\ kind[t] = "set"
              => writers[handle[t]] = {t} /\ readers[handle[t]] = {}
        /\ ~Holding(t) => \A c \in CellIds : t \notin readers[c] \cup writers[c]

\* two gets hold one lock in read mode together, one of them having read
C1_Witness ==
    \E c \in CellIds :
        /\ Cardinality(readers[c]) >= 2
        /\ \E t \in readers[c] : pc[t] = "accessed"

\* C2: a get returns 0 or a value that a set on the same counter had stored
\* (and released) before the get took the lock.
C2_ReadsOwnCounter ==
    \A t \in TaskIds :
        HasRead(t) =>
            \/ result[t] = 0
            \/ \E u \in seen[t] : handle[u] = handle[t] /\ new_val[u] = result[t]

\* a get returned a written value while another counter holds a different
\* written value
C2_Witness ==
    \E t \in TaskIds :
        /\ HasRead(t)
        /\ result[t] # 0
        /\ \E c \in CellIds : c # handle[t] /\ src[c] # 0 /\ inner[c] # result[t]

\* C3: when the run has completed, each counter holds the payload of the set
\* that took its write lock last, or 0 when the run has no set on it; every set
\* of the run took the lock.
C3_FinalValueIsLastWrite ==
    phase = "reported" =>
        \A c \in CellIds :
            /\ {lockOrder[c][i] : i \in 1..Len(lockOrder[c])} = SetsOf(c)
            /\ Len(lockOrder[c]) = Cardinality(SetsOf(c))
            /\ inner[c] = IF SetsOf(c) = {} THEN 0
                          ELSE new_val[Last(lockOrder[c])]

\* a completed run with two sets of different payloads on one counter
C3_Witness ==
    /\ phase = "reported"
    /\ \E c \in CellIds :
        /\ Len(lockOrder[c]) = 2
        /\ new_val[lockOrder[c][1]] # new_val[lockOrder[c][2]]

\* the sets of cell c that took the write lock when w did or later
NotBefore(c, w) ==
    {lockOrder[c][j] : j \in {k \in 1..Len(lockOrder[c]) :
                                 \E i \in 1..k : lockOrder[c][i] = w}}

\* C4: a get that took the lock after a set W released it returns the payload
\* of W or of a set that took the lock after W: never the initial 0, never
\* the payload of a set before W.
C4_ReadAfterWrite ==
    \A t \in TaskIds :
        HasRead(t) =>
            \A w \in seen[t] :
                /\ from[t] \in NotBefore(handle[t], w)
                /\ result[t] = new_val[from[t]]

\* a get that took the lock after two sets of different payloads
C4_Witness ==
    \E t \in TaskIds :
        /\ HasRead(t)
        /\ Cardinality(seen[t]) = 2
        /\ \E u \in seen[t] : new_val[u] # result[t]

\* the number of collected results equal to v
CountOf(v) == Cardinality({i \in 1..Len(results) : results[i] = v})

\* C5: when the summary line is printed every one of the N*K operations has
\* completed and has been collected, and the results hold N*K values, one per
\* operation.
C5_ReportAfterAll ==
    (phase = "reported" \/ stdout # <<>>) =>
        /\ futures = Total
        /\ \A t \in 1..Total : pc[t] = "collected"
        /\ \A c \in CellIds : readers[c] = {} /\ writers[c] = {}
        /\ Len(results) = Total
        /\ \A v \in Values :
            CountOf(v) = Cardinality({t \in 1..Total : result[t] = v})

\* a run of the largest number of operations has printed its line
C5_Witness ==
    /\ phase = "reported"
    /\ Len(stdout) = 1
    /\ Total = MaxTasks

\* C9: a run submits N*K operations, K for each of the N counters, each bound
\* to a clone of its own counter.
C9_OperationsPerCounter ==
    /\ phase # "submitting" =>
        /\ futures = Total
        /\ \A c \in CellIds :
            Cardinality({t \in TaskIds : handle[t] = c})
                = IF c <= max_counters THEN per_counter_operations_cnt ELSE 0
    /\ \A t \in TaskIds :
        /\ t <= futures <=> kind[t] # "none"
        /\ t <= futures =>
            handle[t] = ((t - 1) \div per_counter_operations_cnt) + 1

\* the submission of a run of several counters and several operations each is
\* complete
C9_Witness ==
    /\ phase = "awaiting"
    /\ max_counters >= 2
    /\ per_counter_operations_cnt >= 2
    /\ \A t \in 1..Total : pc[t] = "ready"

\* C10: a set task resolves to its own payload, which lies in the generated
\* range, whatever the counter holds by then; a get task resolves to the value
\* the counter held while the get held the lock.
C10_TaskOutputs ==
    \A t \in TaskIds :
        /\ kind[t] = "set" => new_val[t] \in 0..(MaxPayload - 1)
        /\ kind[t] = "set" /\ Finished(t) => result[t] = new_val[t]
        /\ kind[t] = "get" /\ pc[t] = "accessed" =>
            result[t] = inner[handle[t]] /\ from[t] = src[handle[t]]
        /\ HasRead(t) =>
            result[t] = IF from[t] = 0 THEN 0 ELSE new_val[from[t]]

\* a set task has resolved to its payload and the counter holds another value;
\* a get task has resolved to a written value
C10_Witness ==
    /\ \E t \in TaskIds :
        kind[t] = "set" /\ Finished(t) /\ inner[handle[t]] # result[t]
    /\ \E t \in TaskIds :
        kind[t] = "get" /\ Finished(t) /\ result[t] # 0

\* C6: under a fair scheduler, a run of N >= 1 counters and K >= 1 operations
\* each, of either variant and any mix, has every operation take its lock and
\* complete, and reaches the reported phase.
C6_RunCompletes ==
    (max_counters >= 1 /\ per_counter_operations_cnt >= 1) =>
        <>(/\ phase = "reported"
           /\ \A t \in 1..Total : pc[t] = "collected"
           /\ \A c \in CellIds : Len(lockOrder[c]) = Cardinality(SetsOf(c)))

\* a task waits for a contended lock while the results are awaited
C6_Witness ==
    /\ phase = "awaiting"
    /\ \E t \in TaskIds : pc[t] = "suspended"
    /\ \E t \in TaskIds : pc[t] = "running" /\ Contended(t)

\* the lock of cell c is released in this step
Dropped(c) ==
    /\ readers'[c] \subseteq readers[c]
    /\ writers'[c] \subseteq writers[c]
    /\ <<readers'[c], writers'[c]>> # <<readers[c], writers[c]>>

\* C7: an AsyncCounter task waiting for a contended lock is on no worker: the
\* worker it ran on is idle once it waits, and a release of the lock makes the
\* waiter ready again (and nothing else does).
C7_WaiterLeavesWorker ==
    [][variant = "AsyncCounter" =>
        \A t \in TaskIds :
            /\ pc'[t] = "suspended" => \A w \in Workers : running'[w] # t
            /\ pc[t] = "running" /\ pc'[t] = "suspended" =>
                Contended(t) /\ running'[WorkerOf(t)] = 0
            /\ pc[t] = "suspended" /\ Dropped(handle[t]) => pc'[t] = "ready"
            /\ pc[t] = "suspended" /\ pc'[t] # "suspended" =>
                pc'[t] = "ready" /\ Dropped(handle[t])
            /\ pc'[t] = "suspended" =>
                readers'[handle[t]] \cup writers'[handle[t]] # {}]_vars

\* an AsyncCounter task waits while every worker runs another task
C7_Witness ==
    /\ variant = "AsyncCounter"
    /\ \E t \in TaskIds : pc[t] = "suspended"
    /\ pool >= 2
    /\ \A w \in 1..pool : running[w] # 0 /\ pc[running[w]] # "suspended"

\* task t is on a worker, inside get or set
Started(t) == pc[t] \in {"running", "locked", "accessed"}

\* C8: a Counter task stays on its worker from the start of its get or set to
\* the end: while its lock is contended the task does not move, the worker
\* runs nothing else, and the task is never suspended or made ready again.
C8_BlockedKeepsWorker ==
    [][variant = "Counter" =>
        \A t \in TaskIds :
            /\ Started(t) => OnWorker(t)
            /\ Started(t) =>
                \/ Started(t)' /\ running'[WorkerOf(t)] = t
                \/ pc'[t] = "done" /\ running'[WorkerOf(t)] = 0
            /\ pc[t] = "running" /\ Contended(t) => pc'[t] = "running"
            /\ pc'[t] # "suspended"]_vars

\* a Counter task waits on its worker for a lock while a ready task finds no
\* worker
C8_Witness ==
    /\ variant = "Counter"
    /\ \E t \in TaskIds : pc[t] = "running" /\ Contended(t) /\ OnWorker(t)
    /\ \E t \in TaskIds : pc[t] = "ready"
    /\ \A w \in 1..pool : running[w] # 0

\* C11: with read probability 1.0 every operation of the run is a get, every
\* result is 0, every counter holds 0 throughout, and the line printed shows 0.
C11_AllReads ==
    read_write_ratio = 10 =>
        /\ \A t \in TaskIds : kind[t] \in {"none", "get"} /\ result[t] = 0
        /\ \A i \in 1..Len(results) : results[i] = 0
        /\ \A c \in CellIds : inner[c] = 0 /\ writers[c] = {}
        /\ \A i \in 1..Len(stdout) : stdout[i].first_val = 0
        /\ phase = "reported" =>
            /\ Len(stdout) = 1
            /\ Len(results) = Total
            /\ \A t \in 1..Total : kind[t] = "get"

\* a run of two counters and several gets each, probability 1.0, has reported
C11_Witness ==
    /\ read_write_ratio = 10
    /\ max_counters = 2
    /\ per_counter_operations_cnt >= 2
    /\ phase = "reported"
    /\ stdout[1].first_val = 0

\* C12: with read probability 0.0 every operation is a set; for N = 1, K = 1
\* one set executes, the counter ends with its payload and the line printed
\* shows that payload.
C12_AllWrites ==
    read_write_ratio = 0 =>
        /\ \A t \in TaskIds : kind[t] \in {"none", "set"}
        /\ \A t \in 1..futures : kind[t] = "set"
        /\ (max_counters = 1 /\ per_counter_operations_cnt = 1
            /\ phase = "reported") =>
                /\ futures = 1
                /\ lockOrder[1] = <<1>>
                /\ inner[1] = new_val[1]
                /\ results = <<new_val[1]>>
                /\ Len(stdout) = 1
                /\ stdout[1].first_val = new_val[1]

\* the run of one counter and one set, of a payload other than 0, has reported
C12_Witness ==
    /\ read_write_ratio = 0
    /\ max_counters = 1
    /\ per_counter_operations_cnt = 1
    /\ phase = "reported"
    /\ new_val[1] # 0
    /\ stdout[1].first_val = new_val[1]

\* the entry of the matrix main is to run as its i-th call
Expected(i) ==
    [name |-> IF i \in {1, 3} THEN "Counter" ELSE "AsyncCounter",
     ratio |-> IF i <= 2 THEN 9 ELSE 5]

\* C14: main makes four calls of test, (Counter, 0.9), (AsyncCounter, 0.9),
\* (Counter, 0.5), (AsyncCounter, 0.5), in this order; each call goes once
\* through submitting, awaiting, reported; the next call starts only from the
\* reported phase of the previous one, when every operation of that call has
\* been collected and no worker runs a task.
C14_FourRunsInOrder ==
    /\ [](/\ run \in 1..4
          /\ variant = Expected(run).name
          /\ read_write_ratio = Expected(run).ratio
          /\ Len(stdout) = IF phase \in {"reported", "exited"} THEN run ELSE run - 1
          /\ \A i \in 1..Len(stdout) :
                /\ stdout[i].name = Expected(i).name
                /\ stdout[i].ratio = Expected(i).ratio
          /\ phase \in {"submitting", "awaiting", "reported", "exited"}
          /\ phase = "exited" => run = 4)
    /\ [][/\ phase' # phase =>
                \/ phase = "submitting" /\ phase' = "awaiting" /\ run' = run
                \/ phase = "awaiting" /\ phase' = "reported" /\ run' = run
                \/ phase = "reported" /\ phase' = "submitting" /\ run' = run + 1
                \/ phase = "reported" /\ phase' = "exited" /\ run' = run
          /\ run' # run =>
                /\ phase = "reported" /\ phase' = "submitting"
                /\ futures = Total
                /\ \A t \in 1..Total : pc[t] = "collected"
                /\ \A w \in Workers : running[w] = 0
                /\ \A t \in TaskIds : pc'[t] = "none"
          /\ futures' > futures =>
                /\ phase = "submitting"
                /\ Len(stdout) = run - 1
                /\ \A t \in TaskIds : t > futures => pc[t] = "none"]_vars

\* main has returned after its four calls
C14_Witness ==
    /\ phase = "exited"
    /\ Len(stdout) = 4
    /\ run = 4

\* an operation of the current call of test has terminated unexpectedly, or
\* test itself has
Failed == phase = "panicked" \/ \E t \in TaskIds : pc[t] = "panicked"

\* C13: once an operation of a run has terminated unexpectedly (a panic in
\* its task, a poisoned lock, a failed submission) the run never reaches the
\* reported phase, no further line is printed and no further call of test is
\* made; a panic raised in test is final.
C13_FailureStopsRun ==
    /\ [](/\ Failed => phase \notin {"reported", "exited"}
                       /\ Len(stdout) = run - 1
          /\ \A c \in CellIds : poisoned[c] =>
                variant = "Counter" /\ \E t \in TaskIds : pc[t] = "panicked")
    /\ [][/\ Failed => Failed' /\ run' = run /\ stdout' = stdout
          /\ phase = "panicked" => phase' = "panicked"
          /\ (phase = "submitting" /\ phase' = "panicked") =>
                futures' = futures /\ futures < Total]_vars

\* the third call of main has panicked on the handle of a task that panicked
\* on a lock poisoned by another task
C13_Witness ==
    /\ run = 3
    /\ phase = "panicked"
    /\ Len(stdout) = 2
    /\ \E c \in CellIds : poisoned[c]
    /\ Cardinality({t \in TaskIds : pc[t] = "panicked"}) >= 2


\* let start = Instant::now() has been executed in the current call of test:
\* the statement follows the two submission loops
StartTaken == LoopDone /\ phase # "submitting"

\* C15: no submitted operation begins executing or completes before the start
\* timestamp of its run has been taken, so that the measured interval covers
\* the execution of every operation.
C15_StartBeforeExecution ==
    \A t \in TaskIds : pc[t] \notin {"none", "ready"} => StartTaken

\* C16: the reported sample, element 0 of the collected results, is the return
\* value of the operation that completed first among the operations of the run.
C16_SampleIsFirstCompleted ==
    phase = "reported" => results[1] = result[first_done]

\* the value cell c holds according to the sets made through its clones
StoredBy(c) == IF src[c] = 0 THEN NewValue ELSE new_val[src[c]]

\* C18: all clones of a counter refer to one cell. Cloning binds the new task
\* to the cell of counters[index] and changes no stored value; a cell changes
\* only by the store of a set task bound to it and then holds that payload;
\* a get returns what the last set through any clone of its counter stored;
\* a get or set on one counter leaves every other counter's value unchanged.
C18_ClonesShareCell ==
    /\ [](\A c \in CellIds : inner[c] = StoredBy(c))
    /\ [][/\ futures' > futures =>
                /\ inner' = inner
                /\ handle'[futures'] = index + 1
                /\ \A t \in 1..futures : handle'[t] = handle[t]
          /\ \A c \in CellIds : inner'[c] # inner[c] =>
                \E t \in TaskIds :
                    /\ kind[t] = "set" /\ handle[t] = c
                    /\ pc[t] = "locked" /\ pc'[t] = "accessed"
                    /\ inner'[c] = new_val[t]
                    /\ \A d \in CellIds \ {c} : inner'[d] = inner[d]
          /\ \A t \in TaskIds :
                (kind[t] = "get" /\ pc[t] = "locked" /\ pc'[t] = "accessed") =>
                    /\ inner' = inner
                    /\ result'[t] = StoredBy(handle[t])
                    /\ from'[t] # 0 => from'[t] # t /\ handle[from'[t]] = handle[t]]_vars

\* two counters hold different values, each read back through a clone other
\* than the one that stored it
C18_Witness ==
    /\ phase = "reported"
    /\ inner[1] # inner[2]
    /\ \E g1, g2 \in TaskIds :
        /\ kind[g1] = "get" /\ handle[g1] = 1 /\ from[g1] # 0
        /\ result[g1] = inner[1]
        /\ kind[g2] = "get" /\ handle[g2] = 2 /\ from[g2] # 0
        /\ result[g2] = inner[2]

\* the tasks holding the guard of cell c
Holders(c) == readers[c] \cup writers[c]

\* C19: in both variants no task holds a counter's lock across a suspension
\* point. Every lock holder is a task between taking and dropping its guard
\* and is running on a worker; while it holds the guard it keeps that worker
\* and only moves on to its access and to its end, never to a suspension; and
\* its next step, up to the drop of the guard, is always enabled, whatever
\* the other tasks do.
C19_NoLockAcrossSuspension ==
    /\ [](/\ \A c \in CellIds : \A t \in Holders(c) : Holding(t) /\ handle[t] = c
          /\ \A t \in TaskIds : Holding(t) =>
                /\ t \in Holders(handle[t])
                /\ OnWorker(t)
                /\ pc[t] = "locked" => ENABLED (get_deref(t) \/ set_store(t))
                /\ pc[t] = "accessed" =>
                      ENABLED (Counter_return(t) \/ AsyncCounter_return(t)))
    /\ [][\A t \in TaskIds : Holding(t) =>
                /\ pc'[t] \in {pc[t], "accessed", "done"}
                /\ pc[t] = "accessed" => pc'[t] # "locked"
                /\ pc'[t] = "done" => t \notin Holders(handle[t])'
                /\ Holding(t)' => \E w \in Workers : running[w] = t /\ running'[w] = t]_vars

\* an AsyncCounter writer has stored its value and still holds its guard on a
\* worker while another task of the same counter is suspended on the lock
C19_Witness ==
    \E t, u \in TaskIds :
        /\ variant = "AsyncCounter"
        /\ kind[t] = "set" /\ pc[t] = "accessed" /\ OnWorker(t)
        /\ handle[u] = handle[t]
        /\ pc[u] = "suspended"

\* C20: results[0] exists exactly when max_counters * per_counter_operations_cnt
\* is at least 1. A call with max_counters = 0 or per_counter_operations_cnt = 0
\* submits no operation, ends its collect with an empty result list and then
\* panics at the report step, printing nothing; a call with at least one
\* operation never panics there and prints its line.
C20_EmptyRunPanics ==
    /\ [](/\ Total = 0 <=> (max_counters = 0 \/ per_counter_operations_cnt = 0)
          /\ Total = 0 =>
                /\ futures = 0 /\ results = <<>> /\ stdout = <<>>
                /\ \A t \in TaskIds : pc[t] = "none"
                /\ phase \in {"submitting", "awaiting", "panicked"}
          /\ phase = "reported" => Total >= 1 /\ Len(results) = Total
          /\ phase = "panicked" => Total = 0
          /\ (phase = "awaiting" /\ StreamEnded) =>
                /\ Len(results) >= 1 <=> Total >= 1
                /\ (ENABLED report) <=> Total >= 1
                /\ (ENABLED report_panic) <=> Total = 0)
    /\ [][phase' # phase /\ phase' \in {"panicked", "reported"} =>
                /\ phase = "awaiting" /\ StreamEnded
                /\ phase' = "panicked" <=> results = <<>>
                /\ phase' = "panicked" => stdout' = stdout
                /\ phase' = "reported" =>
                      stdout' = Append(stdout, [name |-> variant,
                                                ratio |-> read_write_ratio,
                                                first_val |-> results[1]])]_vars

\* a call with counters but no operation per counter has panicked at
\* results[0] with nothing printed
C20_Witness ==
    /\ phase = "panicked"
    /\ max_counters >= 1
    /\ per_counter_operations_cnt = 0
    /\ results = <<>>
    /\ stdout = <<>>
====
